---- MODULE Spec2Model ----
(***************************************************************************)
(* Model of bookgen/main.py: the outline parser, the completion client,    *)
(* the memory tracker, the output sanitizer, the document writer and the   *)
(* run driver main().                                                      *)
(*                                                                         *)
(* Text.  A Python str is modelled as a sequence of tokens; every token    *)
(* stands for one fixed literal, so that every string operation of the     *)
(* source (replace, strip, splitlines, the regular expressions) is         *)
(* computed on the token sequence exactly as Python computes it on the     *)
(* concatenated literals:                                                  *)
(*    "sp"  " "                       "nl"  "\n"                           *)
(*    "L"   "<<<END_OF_"              "R"   "SUBHEADING>>>"                *)
(*    "E"   one character outside the basic multilingual plane (U+1F600)   *)
(*    "h"   "##"                      "-"   "-"                            *)
(*    "B"   "**"                      "bu"  the bullet U+2022              *)
(*    "em"  the em dash U+2014                                             *)
(*    "w"   "warning"    "W"  "WARNING"    "Cap"  "Warning"                *)
(*    "P"   450 times the word "lorem", single spaces, then "."            *)
(*    "M"   200 times the word "ipsum", single spaces, then "."            *)
(*    "S"   "SUMMARY:"                "C"   "CLAIMS:"                      *)
(* END_MARK is the two tokens L R.  No literal contains a digit, a tab or  *)
(* a carriage return, and "*", "#", "<", ">" occur in no other literal.    *)
(*                                                                         *)
(* The MASTER_PROMPT literal opened at line 34 of main.py has no closing   *)
(* quotes; the module is read with the literal closed before line 53.      *)
(***************************************************************************)
EXTENDS Integers, Sequences, FiniteSets, TLC

VARIABLES
  fin, fout,        \* a function under test: its input, its successive results
  hasKey,           \* OPENAI_API_KEY is set in the environment
  checkpoint,       \* progress.json exists
  cfg,              \* book.yaml: exists, the keys it holds, its toc
  pc, err,          \* position of the run; the error that ended it
  chapters, ci, si, \* flatten_toc's result, current chapter and subsection
  doc, file,        \* the Document in memory; the saved .docx (<<>> = none)
  mem,              \* summary, claims, angle
  tries, out_text, fixed,
  called,           \* some call to the completion service has been made
  log,              \* the calls and document steps of the current unit
  firstGood         \* how the unit's first generation attempt was judged

fvars == <<fin, fout>>

envvars == <<hasKey, checkpoint, cfg>>

runvars == <<pc, err, chapters, ci, si, doc, file, mem, tries, out_text, fixed,
             called, log, firstGood>>

vars == <<fin, fout, hasKey, checkpoint, cfg, pc, err, chapters, ci, si, doc,
          file, mem, tries, out_text, fixed, called, log, firstGood>>

(***************************************************************************)
(* Program constants                                                       *)
(***************************************************************************)
MIN_SUBSECTION_WORDS == 450
MIN_HARD_WORDS == 200
MAX_TRIES_PER_SUB == 5
END_MARK == <<"L", "R">>
MINI_MODE == "bullet"

(***************************************************************************)
(* Bounds of the model                                                     *)
(***************************************************************************)
MaxCleanLen == 5
MaxTocLen == 3
MaxMemLen == 5
MaxRespBlocks == 2

(***************************************************************************)
(* Properties of the literals                                              *)
(***************************************************************************)
\* len(literal), in code points
TokLen(t) ==
  CASE t = "L" -> 10
    [] t = "R" -> 13
    [] t \in {"h", "B"} -> 2
    [] t \in {"w", "W", "Cap", "C"} -> 7
    [] t = "S" -> 8
    [] t = "P" -> 2700
    [] t = "M" -> 1200
    [] OTHER -> 1

\* number of characters of the literal in [A-Za-z]
TokLetters(t) ==
  CASE t = "L" -> 5
    [] t = "R" -> 10
    [] t \in {"w", "W", "Cap", "S"} -> 7
    [] t = "C" -> 6
    [] t = "P" -> 2250
    [] t = "M" -> 1000
    [] OTHER -> 0

\* number of characters of the literal for which str.isupper() holds
TokUppers(t) ==
  CASE t = "L" -> 5
    [] t = "R" -> 10
    [] t \in {"W", "S"} -> 7
    [] t = "C" -> 6
    [] t = "Cap" -> 1
    [] OTHER -> 0

\* number of whitespace-separated words inside the literal (0 for whitespace)
TokWords(t) ==
  CASE t \in {"sp", "nl"} -> 0
    [] t = "P" -> 450
    [] t = "M" -> 200
    [] OTHER -> 1

\* str.lower() of one literal
TokLower(t) == IF t \in {"W", "Cap"} THEN "w" ELSE t

IsWs(t) == t \in {"sp", "nl"}

RECURSIVE CharLen(_)
CharLen(s) == IF s = <<>> THEN 0 ELSE TokLen(Head(s)) + CharLen(Tail(s))

RECURSIVE Letters(_)
Letters(s) == IF s = <<>> THEN 0 ELSE TokLetters(Head(s)) + Letters(Tail(s))

RECURSIVE Uppers(_)
Uppers(s) == IF s = <<>> THEN 0 ELSE TokUppers(Head(s)) + Uppers(Tail(s))

Lower(s) == [i \in 1..Len(s) |-> TokLower(s[i])]

(***************************************************************************)
(* str helpers                                                             *)
(***************************************************************************)
\* index of the first token at or after i that is not whitespace (Len+1 if none)
RECURSIVE WsRunEnd(_, _)
WsRunEnd(s, i) ==
  IF i > Len(s) \/ ~IsWs(s[i]) THEN i ELSE WsRunEnd(s, i + 1)

\* index of the last token that is not whitespace (0 if none)
RECURSIVE LastNonWs(_, _)
LastNonWs(s, i) ==
  IF i < 1 \/ ~IsWs(s[i]) THEN i ELSE LastNonWs(s, i - 1)

\* str.rstrip(), str.lstrip(), str.strip()
RStrip(s) == SubSeq(s, 1, LastNonWs(s, Len(s)))
LStrip(s) == SubSeq(s, WsRunEnd(s, 1), Len(s))
Strip(s) == LStrip(RStrip(s))

\* str.split("\n"): always at least one piece
RECURSIVE SplitNl(_)
SplitNl(s) ==
  IF \A i \in 1..Len(s) : s[i] # "nl" THEN <<s>>
  ELSE LET k == CHOOSE i \in 1..Len(s) :
                  s[i] = "nl" /\ \A j \in 1..(i - 1) : s[j] # "nl"
       IN <<SubSeq(s, 1, k - 1)>> \o SplitNl(SubSeq(s, k + 1, Len(s)))

\* str.splitlines(): as split("\n") without the empty piece after a final "\n"
SplitLines(s) ==
  LET p == SplitNl(s)
  IN IF p[Len(p)] = <<>> THEN SubSeq(p, 1, Len(p) - 1) ELSE p

\* "\n".join(lines)
RECURSIVE JoinNl(_)
JoinNl(lines) ==
  IF lines = <<>> THEN <<>>
  ELSE IF Len(lines) = 1 THEN lines[1]
  ELSE lines[1] \o <<"nl">> \o JoinNl(Tail(lines))

\* len(s.split()): the words of the maximal runs of non-whitespace tokens;
\* literals glued together without whitespace share one word at the joint
RECURSIVE WordCount(_)
WordCount(s) ==
  IF s = <<>> THEN 0
  ELSE IF IsWs(Head(s)) THEN WordCount(Tail(s))
  ELSE TokWords(Head(s)) + WordCount(Tail(s))
       - (IF Len(s) >= 2 /\ ~IsWs(s[2]) THEN 1 ELSE 0)

\* needle in hay (both over the same literals)
Contains(hay, needle) ==
  \E i \in 0..(Len(hay) - Len(needle)) :
     SubSeq(hay, i + 1, i + Len(needle)) = needle

(***************************************************************************)
(* clean_text                                                              *)
(***************************************************************************)
\* raw.replace(END_MARK, ""): non-overlapping occurrences, left to right
RECURSIVE RemoveEndMark(_)
RemoveEndMark(s) ==
  IF s = <<>> THEN <<>>
  ELSE IF Len(s) >= 2 /\ SubSeq(s, 1, 2) = END_MARK
       THEN RemoveEndMark(SubSeq(s, 3, Len(s)))
  ELSE <<Head(s)>> \o RemoveEndMark(Tail(s))

\* re.sub(r"[\U00010000-\U0010FFFF]", "", text)
StripEmoji(s) == SelectSeq(s, LAMBDA t : t # "E")

AtLineStart(s, i) == i = 1 \/ s[i - 1] = "nl"

\* re.sub(r"^#{2,3}\s+", "", text, flags=re.MULTILINE), scanning from index i
RECURSIVE StripHeadsFrom(_, _)
StripHeadsFrom(s, i) ==
  IF i > Len(s) THEN <<>>
  ELSE LET e == WsRunEnd(s, i + 1)
       IN IF AtLineStart(s, i) /\ s[i] = "h" /\ e > i + 1
          THEN StripHeadsFrom(s, e)
          ELSE <<s[i]>> \o StripHeadsFrom(s, i + 1)

IsBulletTok(t) == t \in {"-", "bu"}

\* BULLET_RE.sub(r"\1", text), scanning from index i
RECURSIVE StripBulletsFrom(_, _)
StripBulletsFrom(s, i) ==
  IF i > Len(s) THEN <<>>
  ELSE LET k == WsRunEnd(s, i)
           e == WsRunEnd(s, k + 1)
       IN IF AtLineStart(s, i) /\ k <= Len(s) /\ IsBulletTok(s[k]) /\ e > k + 1
          THEN SubSeq(s, i, k - 1) \o StripBulletsFrom(s, e)
          ELSE <<s[i]>> \o StripBulletsFrom(s, i + 1)

\* upper_ratio > 0.6 and len(t) > 8
IsShoutLine(t) ==
  /\ Letters(t) > 0
  /\ 10 * Uppers(t) > 6 * Letters(t)
  /\ CharLen(t) > 8

\* re.match(r"^\*\*[^*].*[^*]\*\*$", t)
IsFullBold(t) ==
  /\ Len(t) >= 3
  /\ t[1] = "B" /\ t[Len(t)] = "B"
  /\ t[2] # "B" /\ t[Len(t) - 1] # "B"
  /\ CharLen(SubSeq(t, 2, Len(t) - 1)) >= 2

\* the loop over text.splitlines()
RECURSIVE CleanLines(_)
CleanLines(lines) ==
  IF lines = <<>> THEN <<>>
  ELSE LET t == RStrip(Head(lines))
       IN IF IsShoutLine(t) THEN CleanLines(Tail(lines))
          ELSE IF IsFullBold(t)
               THEN <<SubSeq(t, 2, Len(t) - 1)>> \o CleanLines(Tail(lines))
          ELSE <<t>> \o CleanLines(Tail(lines))

clean_text(raw) ==
  IF raw = <<>> THEN <<>>
  ELSE LET t1 == Strip(RemoveEndMark(raw))
           t2 == StripEmoji(t1)
           t3 == StripHeadsFrom(t2, 1)
           t4 == StripBulletsFrom(t3, 1)
       IN Strip(JoinNl(CleanLines(SplitLines(t4))))

(***************************************************************************)
(* flatten_toc                                                             *)
(*   An outline item is a record: kind "str" (a bare string, its text in   *)
(*   title), kind "dict" (a mapping, its key/value pairs in insertion      *)
(*   order in pairs; a value is a list of subsection titles, isList, or    *)
(*   something else) or kind "other" (any other YAML value).               *)
(***************************************************************************)
StrItem(t) == [kind |-> "str", title |-> t, pairs |-> <<>>]
DictItem(ps) == [kind |-> "dict", title |-> <<>>, pairs |-> ps]
OtherItem == [kind |-> "other", title |-> <<>>, pairs |-> <<>>]
ListVal(subs) == [isList |-> TRUE, subs |-> subs]
NonListVal == [isList |-> FALSE, subs |-> <<>>]
Pair(k, v) == [k |-> k, v |-> v]

\* DictChapters losing the mapped list
DictChaptersNoSubs(ps) ==
  [i \in 1..Len(ps) |-> [title |-> ps[i].k, subs |-> <<>>]]

\* for k, v in item.items(): subs = v if isinstance(v, list) else []
DictChapters(ps) ==
  [i \in 1..Len(ps) |->
     [title |-> ps[i].k,
      subs |-> IF ps[i].v.isList THEN ps[i].v.subs ELSE <<>>]]

\* FlattenFrom passing over an item that is neither a string nor a mapping
RECURSIVE FlattenSkipping(_, _)
FlattenSkipping(toc_list, i) ==
  IF i > Len(toc_list) THEN [ok |-> TRUE, chapters |-> <<>>]
  ELSE LET item == toc_list[i]
           rest == FlattenSkipping(toc_list, i + 1)
       IN IF item.kind = "other" THEN rest
          ELSE IF item.kind = "str"
               THEN [ok |-> TRUE,
                     chapters |-> <<[title |-> item.title, subs |-> <<>>]>>
                                  \o rest.chapters]
          ELSE [ok |-> TRUE,
                chapters |-> DictChapters(item.pairs) \o rest.chapters]

\* the chapters appended for the items i..Len(toc_list); ok is FALSE when
\* an item raises ValueError
RECURSIVE FlattenFrom(_, _)
FlattenFrom(toc_list, i) ==
  IF i > Len(toc_list) THEN [ok |-> TRUE, chapters |-> <<>>]
  ELSE LET item == toc_list[i]
           rest == FlattenFrom(toc_list, i + 1)
       IN IF item.kind = "other" \/ ~rest.ok
          THEN [ok |-> FALSE, chapters |-> <<>>]
          ELSE IF item.kind = "str"
               THEN [ok |-> TRUE,
                     chapters |-> <<[title |-> item.title, subs |-> <<>>]>>
                                  \o rest.chapters]
          ELSE [ok |-> TRUE,
                chapters |-> DictChapters(item.pairs) \o rest.chapters]

flatten_toc(toc_list) == FlattenFrom(toc_list, 1)

(***************************************************************************)
(* update_memory_from_text: the parse of the summarisation response `out`  *)
(*   mem is a record summary, claims, angle; a missing or None angle and   *)
(*   the empty string are both <<>> (the code reads it with `or` only).    *)
(***************************************************************************)
FirstIndex(s, t) ==
  IF \A i \in 1..Len(s) : s[i] # t THEN 0
  ELSE CHOOSE i \in 1..Len(s) : s[i] = t /\ \A j \in 1..(i - 1) : s[j] # t

\* r"\n\s*CLAIMS:" matches at index j
ClaimsHeadAt(s, j) ==
  /\ s[j] = "nl"
  /\ LET c == WsRunEnd(s, j + 1) IN c <= Len(s) /\ s[c] = "C"

\* re.search(r"SUMMARY:\s*([\s\S]*?)\n\s*CLAIMS:", out, re.I), group(1).strip();
\* <<>> when there is no match
ParsedSummary(out) ==
  LET iS == FirstIndex(out, "S")
      k == WsRunEnd(out, iS + 1)
      ends == {j \in k..Len(out) : ClaimsHeadAt(out, j)}
  IN IF iS = 0 \/ ends = {} THEN <<>>
     ELSE LET j0 == CHOOSE j \in ends : \A j2 \in ends : j <= j2
          IN Strip(SubSeq(out, k, j0 - 1))

\* re.split(r"CLAIMS:\s*", out, flags=re.I)[1]
ClaimsTail(out) ==
  LET iC == FirstIndex(out, "C")
      b == WsRunEnd(out, iC + 1)
      rest == SubSeq(out, b, Len(out))
      nC == FirstIndex(rest, "C")
  IN IF nC = 0 THEN rest ELSE SubSeq(rest, 1, nC - 1)

\* re.sub(r"^-+\s*", "", ln).strip()
RECURSIVE DashRunEnd(_, _)
DashRunEnd(s, i) ==
  IF i > Len(s) \/ s[i] # "-" THEN i ELSE DashRunEnd(s, i + 1)

ClaimOfLine(ln) ==
  IF ln # <<>> /\ ln[1] = "-"
  THEN Strip(SubSeq(ln, WsRunEnd(ln, DashRunEnd(ln, 1)), Len(ln)))
  ELSE Strip(ln)

RECURSIVE ClaimsOfLines(_)
ClaimsOfLines(lines) ==
  IF lines = <<>> THEN <<>>
  ELSE IF Strip(Head(lines)) = <<>> THEN ClaimsOfLines(Tail(lines))
  ELSE <<ClaimOfLine(Head(lines))>> \o ClaimsOfLines(Tail(lines))

ParsedClaims(out) ==
  IF FirstIndex(out, "C") = 0 THEN <<>>
  ELSE ClaimsOfLines(SplitLines(ClaimsTail(out)))

Take(s, n) == SubSeq(s, 1, IF Len(s) < n THEN Len(s) ELSE n)

\* UpdateMemory without the [:7]
UpdateMemoryUncapped(out, m) ==
  LET summary == ParsedSummary(out)
      claims == ParsedClaims(out)
  IN [m EXCEPT
        !.summary = IF summary # <<>> THEN summary ELSE m.summary,
        !.claims = IF claims # <<>> THEN claims ELSE m.claims]

\* lines 212-221, given the text `out` that call_openai returned
UpdateMemory(out, m) ==
  LET summary == ParsedSummary(out)
      claims == ParsedClaims(out)
  IN [m EXCEPT
        !.summary = IF summary # <<>> THEN summary ELSE m.summary,
        !.claims = Take(IF claims # <<>> THEN claims ELSE m.claims, 7)]

(***************************************************************************)
(* The echo filter and the word-count guards of main()                     *)
(***************************************************************************)
\* re.match(r"^(chapter|day)\s+\d+:", ...) needs a digit: no literal has one
MatchesChapterDay(ln) == FALSE

RECURSIVE DropEchoLines(_, _, _)
DropEchoLines(lines, n_ch, n_sub) ==
  IF lines = <<>> THEN <<>>
  ELSE LET ln == Head(lines)
           rest == DropEchoLines(Tail(lines), n_ch, n_sub)
       IN IF Lower(Strip(ln)) \in {n_ch, n_sub} \/ MatchesChapterDay(Strip(ln))
          THEN rest
          ELSE <<ln>> \o rest

\* lines 485-495
EchoFilter(cleaned, chTitle, sub) ==
  LET lines == SplitLines(cleaned)
      has_real_prose == \E i \in 1..Len(lines) : WordCount(lines[i]) > 5
  IN IF has_real_prose
     THEN JoinNl(DropEchoLines(lines, Lower(Strip(chTitle)), Lower(Strip(sub))))
     ELSE cleaned

\* lines 498-499
HardGuard(cleaned) ==
  IF WordCount(cleaned) < MIN_HARD_WORDS THEN <<>> ELSE cleaned

\* Accepts with > for >=
AcceptsStrict(cleaned) ==
  cleaned # <<>> /\ WordCount(cleaned) > MIN_SUBSECTION_WORDS

\* line 501
Accepts(cleaned) ==
  cleaned # <<>> /\ WordCount(cleaned) >= MIN_SUBSECTION_WORDS

(***************************************************************************)
(* quick_validate_and_fix                                                  *)
(***************************************************************************)
\* re.search(r"^#{2,3}\s+", text, flags=re.M)
HasMarkdownHead(text) ==
  \E i \in 1..Len(text) :
     /\ AtLineStart(text, i) /\ text[i] = "h"
     /\ i < Len(text) /\ IsWs(text[i + 1])

\* literals made only of characters of [A-Z0-9\s.,;:!?"'()\\-]
InCapsClass(t) == t \in {"W", "S", "C", "sp", "nl", "-"}

\* re.search(r"^[A-Z0-9][A-Z0-9\s.,;:!?\"'()\\-]{20,}$", text, flags=re.M)
HasAllCaps(text) ==
  \E i \in 1..Len(text) : \E j \in i..Len(text) :
     /\ AtLineStart(text, i) /\ text[i] \in {"W", "S", "C"}
     /\ \A k \in i..j : InCapsClass(text[k])
     /\ CharLen(SubSeq(text, i, j)) >= 21
     /\ (j = Len(text) \/ text[j + 1] = "nl")

\* c and len(c) > 8 and c.lower() in text.lower(), for some covered claim
RepeatsClaim(text, covered_claims) ==
  \E n \in 1..Len(covered_claims) :
     LET c == covered_claims[n]
     IN c # <<>> /\ CharLen(c) > 8 /\ Contains(Lower(text), Lower(c))

\* the kinds of issue found (lines 403-410)
Issues(text, covered_claims) ==
  (IF HasMarkdownHead(text) THEN {"markdown"} ELSE {})
    \cup (IF HasAllCaps(text) THEN {"allcaps"} ELSE {})
    \cup (IF RepeatsClaim(text, covered_claims) THEN {"claim"} ELSE {})

\* lines 433-434, given the text `resp` that call_openai returned
FixedText(text, resp) == clean_text(IF resp # <<>> THEN resp ELSE text)

(***************************************************************************)
(* normalize_mini_headings                                                 *)
(***************************************************************************)
\* the words of a line: its maximal runs of non-whitespace tokens (for a
\* line without the multi-word literals P and M)
RECURSIVE WordsOf(_)
WordsOf(t) ==
  LET b == WsRunEnd(t, 1)
  IN IF b > Len(t) THEN <<>>
     ELSE LET e == CHOOSE j \in b..Len(t) :
                     /\ \A k \in b..j : ~IsWs(t[k])
                     /\ (j = Len(t) \/ IsWs(t[j + 1]))
          IN <<SubSeq(t, b, e)>> \o WordsOf(SubSeq(t, e + 1, Len(t)))

\* re.match(r"^[A-Z][a-z]+$", w)
IsCapWord(w) == w[1] = "Cap" /\ \A i \in 2..Len(w) : w[i] = "w"

\* the literal ends with one of . ! ?
EndsSentence(t) == t \in {"P", "M"}

is_probable_mini_heading(line) ==
  LET t == Strip(line)
      n == WordCount(t)
  IN IF t = <<>> \/ n < 2 \/ n > 7 THEN FALSE
     ELSE IF EndsSentence(t[Len(t)]) THEN FALSE
     ELSE IF MatchesChapterDay(t) THEN FALSE
     ELSE LET words == WordsOf(t)
              caps == Cardinality({i \in 1..Len(words) : IsCapWord(words[i])})
          IN 10 * caps >= 6 * Len(words)

\* f"**{cur}.** {nxt}" needs the literal "."; only the default mode is modelled
Merged(cur, nxt) ==
  <<"bu", "sp", "B">> \o cur \o <<"B", "sp", "em", "sp">> \o nxt

RECURSIVE SkipBlank(_, _)
SkipBlank(lines, i) ==
  IF i > Len(lines) \/ Strip(lines[i]) # <<>> THEN i ELSE SkipBlank(lines, i + 1)

RECURSIVE NormalizeFrom(_, _)
NormalizeFrom(lines, i) ==
  IF i > Len(lines) THEN <<>>
  ELSE LET cur == Strip(lines[i])
           nxt == IF i + 1 <= Len(lines) THEN Strip(lines[i + 1]) ELSE <<>>
       IN IF is_probable_mini_heading(cur) /\ nxt # <<>>
             /\ ~is_probable_mini_heading(nxt)
          THEN <<Merged(cur, nxt)>> \o NormalizeFrom(lines, SkipBlank(lines, i + 2))
          ELSE <<lines[i]>> \o NormalizeFrom(lines, i + 1)

normalize_mini_headings(text) == JoinNl(NormalizeFrom(SplitLines(text), 1))

(***************************************************************************)
(* The document: a sequence of blocks, a block a heading (kind h0, h1, h2) *)
(* or a body paragraph (kind p), with its runs of text                     *)
(***************************************************************************)
Run(bold, text) == [bold |-> bold, text |-> text]

\* doc.add_heading(text, level)
Heading(level, text) ==
  [kind |-> (CASE level = 0 -> "h0" [] level = 1 -> "h1" [] OTHER -> "h2"),
   runs |-> <<Run(FALSE, text)>>]

\* one span of split_into_paragraphs_preserving_bold
Span(part, bold) ==
  IF part = <<>> THEN <<>>
  ELSE <<Run(bold /\ WordCount(part) <= 8, part)>>

RECURSIVE SpansFrom(_, _, _, _)
SpansFrom(line, i, part, bold) ==
  IF i > Len(line) THEN Span(part, bold)
  ELSE IF line[i] = "B"
       THEN Span(part, bold) \o SpansFrom(line, i + 1, <<>>, ~bold)
  ELSE SpansFrom(line, i + 1, Append(part, line[i]), bold)

split_into_paragraphs_preserving_bold(line) == SpansFrom(line, 1, <<>>, FALSE)

\* add_paragraph_with_bold
Paragraph(text) ==
  [kind |-> "p", runs |-> split_into_paragraphs_preserving_bold(text)]

\* re.split(r"(?<=[.!?])\s+", t), the empty chunks dropped, each stripped
RECURSIVE SentenceChunks(_)
SentenceChunks(t) ==
  LET cuts == {i \in 2..Len(t) : IsWs(t[i]) /\ EndsSentence(t[i - 1])}
  IN IF cuts = {}
     THEN (IF Strip(t) = <<>> THEN <<>> ELSE <<Strip(t)>>)
     ELSE LET i == CHOOSE c \in cuts : \A c2 \in cuts : c <= c2
              first == Strip(SubSeq(t, 1, i - 1))
          IN (IF first = <<>> THEN <<>> ELSE <<first>>)
             \o SentenceChunks(SubSeq(t, WsRunEnd(t, i), Len(t)))

RECURSIVE ParagraphsOf(_)
ParagraphsOf(paras) ==
  IF paras = <<>> THEN <<>>
  ELSE LET t == Strip(Head(paras))
           rest == ParagraphsOf(Tail(paras))
       IN IF t = <<>> THEN rest
          ELSE IF WordCount(t) > 180
               THEN LET ch == SentenceChunks(t)
                    IN [i \in 1..Len(ch) |-> Paragraph(ch[i])] \o rest
          ELSE <<Paragraph(t)>> \o rest

\* the paragraphs write_subsection appends to the document
write_subsection(body_text) ==
  ParagraphsOf(SplitNl(normalize_mini_headings(body_text)))

(***************************************************************************)
(* The run: __main__ guard and main()                                      *)
(***************************************************************************)
BookTitle == <<"W">>
TitleA == <<"Cap", "sp", "w">>
TitleB == <<"Cap">>
SubX == <<"w", "sp", "Cap">>
SubY == <<"W", "sp", "w">>

\* the outlines a run is started with
Outlines ==
  { <<DictItem(<<Pair(TitleA, ListVal(<<SubX, SubY>>))>>), StrItem(TitleB)>>,
    <<StrItem(TitleB), DictItem(<<Pair(TitleA, ListVal(<<SubX>>))>>)>>,
    <<DictItem(<<Pair(TitleA, NonListVal)>>)>>,
    <<>>,
    <<StrItem(TitleB), OtherItem>>,
    <<DictItem(<<>>)>>,
    <<DictItem(<<Pair(TitleA, ListVal(<<SubX>>)), Pair(TitleB, NonListVal)>>)>> }

AllKeys == {"title", "persona", "toc"}

Configs ==
  {[exists |-> TRUE, keys |-> AllKeys, toc |-> o] : o \in Outlines}
    \cup {[exists |-> TRUE, keys |-> AllKeys \ {k}, toc |-> <<>>] : k \in AllKeys}
    \cup {[exists |-> FALSE, keys |-> {}, toc |-> <<>>]}

\* what call_openai returns at each call site; a call may also raise
AngleOuts == {<<>>, <<"w", "sp", "w">>, <<"Cap", "nl", "w">>}
GenOuts ==
  { <<>>,
    END_MARK,
    <<"P", "nl", "L", "R">>,
    <<"P", "sp", "L", "L", "R", "R">>,
    <<"M", "nl", "L", "R">>,
    <<"h", "sp", "h", "sp", "P">>,
    <<"Cap", "sp", "Cap", "nl", "P">>,
    <<"Cap", "sp", "w", "nl", "P", "nl", "L", "R">> }
FixOuts == {<<>>, END_MARK, <<"P">>, <<"P", "sp", "L", "E", "R">>}
MemOuts ==
  { <<>>,
    <<"S", "sp", "Cap", "nl", "C", "nl", "-", "sp", "w", "sp", "w">>,
    <<"S", "sp", "W">>,
    <<"w">>,
    <<"C", "nl", "-", "sp", "w", "nl", "-", "sp", "W", "nl", "-", "sp", "Cap",
      "nl", "-", "w", "nl", "-", "W", "nl", "-", "Cap", "nl", "w", "nl", "W">> }

Outcomes(outs) ==
  {[raised |-> FALSE, text |-> t] : t \in outs}
    \cup {[raised |-> TRUE, text |-> <<>>]}

InitMem == [summary |-> <<>>, claims |-> <<>>, angle |-> <<>>]

RunIdle ==
  /\ pc = "idle" /\ err = "none"
  /\ chapters = <<>> /\ ci = 1 /\ si = 1
  /\ doc = <<>> /\ file = <<>>
  /\ mem = InitMem
  /\ tries = 0 /\ out_text = <<>> /\ fixed = <<>>
  /\ called = FALSE /\ log = <<>> /\ firstGood = "none"

Init ==
  /\ fin = <<>> /\ fout = <<>>
  /\ hasKey \in BOOLEAN
  /\ checkpoint \in BOOLEAN
  /\ cfg \in Configs
  /\ pc = "start" /\ err = "none"
  /\ chapters = <<>> /\ ci = 1 /\ si = 1
  /\ doc = <<>> /\ file = <<>>
  /\ mem = InitMem
  /\ tries = 0 /\ out_text = <<>> /\ fixed = <<>>
  /\ called = FALSE /\ log = <<>> /\ firstGood = "none"

\* an uncaught exception or sys.exit ends the process
Abort(kind, e) == pc' = kind /\ err' = e

\* save_doc(doc, path): the file now holds the document
save_doc(d) == d

\* lines 532-536
Guard ==
  /\ pc = "start"
  /\ IF hasKey THEN pc' = "main" /\ err' = err
     ELSE Abort("exit", "MissingCredential")
  /\ UNCHANGED <<fvars, envvars, chapters, ci, si, doc, file, mem, tries,
                 out_text, fixed, called, log, firstGood>>

\* lines 439-449
MainLoad ==
  /\ pc = "main"
  /\ checkpoint' = FALSE
  /\ IF ~cfg.exists
     THEN Abort("exit", "MissingConfig") /\ chapters' = chapters
     ELSE IF cfg.keys # AllKeys
          THEN Abort("crashed", "KeyError") /\ chapters' = chapters
     ELSE IF ~flatten_toc(cfg.toc).ok
          THEN Abort("crashed", "ValueError") /\ chapters' = chapters
     ELSE /\ chapters' = flatten_toc(cfg.toc).chapters
          /\ pc' = "ensure" /\ err' = err
  /\ UNCHANGED <<fvars, hasKey, cfg, ci, si, doc, file, mem, tries, out_text,
                 fixed, called, log, firstGood>>

\* lines 451-456: ensure_doc writes the title and saves; fresh memory
EnsureDoc ==
  /\ pc = "ensure"
  /\ doc' = <<Heading(0, BookTitle)>>
  /\ file' = save_doc(doc')
  /\ mem' = [summary |-> <<>>, claims |-> <<>>, angle |-> <<>>]
  /\ ci' = 1
  /\ pc' = "chapter"
  /\ UNCHANGED <<fvars, envvars, err, chapters, si, tries, out_text, fixed,
                 called, log, firstGood>>

\* lines 458-462: the next chapter's heading
ChapterHead ==
  /\ pc = "chapter" /\ ci <= Len(chapters)
  /\ doc' = Append(doc, Heading(1, chapters[ci].title))
  /\ si' = 1
  /\ log' = <<>> /\ firstGood' = "none"
  /\ pc' = IF chapters[ci].subs = <<>> THEN "ch_gen" ELSE "sub_head"
  /\ UNCHANGED <<fvars, envvars, err, chapters, ci, file, mem, tries, out_text,
                 fixed, called>>

\* lines 529-530: after the last chapter
Finish ==
  /\ pc = "chapter" /\ ci > Len(chapters)
  /\ file' = save_doc(doc)
  /\ pc' = "done"
  /\ UNCHANGED <<fvars, envvars, err, chapters, ci, si, doc, mem, tries,
                 out_text, fixed, called, log, firstGood>>

\* lines 463-465: a chapter without subsections, one call
ChapterGen ==
  /\ pc = "ch_gen"
  /\ called' = TRUE
  /\ \E o \in Outcomes(GenOuts) :
       IF o.raised
       THEN Abort("crashed", "APIError") /\ UNCHANGED <<out_text, log>>
       ELSE /\ out_text' = clean_text(o.text)
            /\ log' = Append(log, "gen")
            /\ pc' = "fix" /\ err' = err
  /\ UNCHANGED <<fvars, envvars, chapters, ci, si, doc, file, mem, tries,
                 fixed, firstGood>>

\* lines 473-474
SubHead ==
  /\ pc = "sub_head"
  /\ doc' = Append(doc, Heading(2, chapters[ci].subs[si]))
  /\ log' = <<>> /\ firstGood' = "none"
  /\ pc' = "angle"
  /\ UNCHANGED <<fvars, envvars, err, chapters, ci, si, file, mem, tries,
                 out_text, fixed, called>>

\* out.splitlines()[0].strip(), for a non-empty out
FirstLine(out) == Strip(SplitLines(out)[1])

\* lines 476-478: build_angle; an empty completion has no first line
BuildAngle ==
  /\ pc = "angle"
  /\ called' = TRUE
  /\ \E o \in Outcomes(AngleOuts) :
       IF o.raised
       THEN Abort("crashed", "APIError") /\ UNCHANGED <<mem, log>>
       ELSE IF SplitLines(o.text) = <<>>
            THEN Abort("crashed", "IndexError") /\ UNCHANGED <<mem, log>>
       ELSE /\ mem' = [mem EXCEPT !.angle = FirstLine(o.text)]
            /\ log' = Append(log, "angle")
            /\ pc' = "gen" /\ err' = err
  /\ tries' = 0 /\ out_text' = <<>>
  /\ UNCHANGED <<fvars, envvars, chapters, ci, si, doc, file, fixed, firstGood>>

\* lines 226-267: the parts of the prompt that are not fixed text or fixed for
\* the run (master, persona, title, chapters_list); "(none)" and the default
\* angle stand for the empty values
subheading_prompt(chapter, sub, m) ==
  [chapter |-> chapter, sub |-> sub,
   summary |-> m.summary, claims_list |-> Take(m.claims, 7), angle |-> m.angle]

\* the verdict on the first generation attempt of a unit
Judged(cleaned, covered_claims) ==
  IF WordCount(cleaned) >= MIN_SUBSECTION_WORDS /\ Issues(cleaned, covered_claims) = {}
  THEN "good" ELSE "other"

\* Generate writing a rejected attempt to the document before the retry
GenerateWritesRejected ==
  /\ pc = "gen" /\ tries < MAX_TRIES_PER_SUB
  /\ called' = TRUE
  /\ \E o \in Outcomes(GenOuts) :
       IF o.raised
       THEN Abort("crashed", "APIError")
            /\ UNCHANGED <<tries, out_text, log, firstGood, doc>>
       ELSE LET cleaned == HardGuard(EchoFilter(clean_text(o.text),
                                                chapters[ci].title,
                                                chapters[ci].subs[si]))
                seen == EchoFilter(clean_text(o.text), chapters[ci].title,
                                   chapters[ci].subs[si])
            IN /\ log' = Append(log, "gen")
               /\ firstGood' = IF tries = 0 /\ firstGood = "none"
                               THEN Judged(seen, mem.claims) ELSE firstGood
               /\ err' = err
               /\ IF Accepts(cleaned)
                  THEN /\ out_text' = cleaned /\ tries' = tries /\ pc' = "fix"
                       /\ doc' = doc
                  ELSE /\ out_text' = out_text /\ tries' = tries + 1 /\ pc' = pc
                       /\ doc' = doc \o write_subsection(cleaned)
  /\ UNCHANGED <<fvars, envvars, chapters, ci, si, file, mem, fixed>>

\* lines 479-505: one iteration of the retry loop
Generate ==
  /\ pc = "gen" /\ tries < MAX_TRIES_PER_SUB
  /\ called' = TRUE
  /\ \E o \in Outcomes(GenOuts) :
       IF o.raised
       THEN Abort("crashed", "APIError") /\ UNCHANGED <<tries, out_text, log, firstGood>>
       ELSE LET cleaned == HardGuard(EchoFilter(clean_text(o.text),
                                                chapters[ci].title,
                                                chapters[ci].subs[si]))
                seen == EchoFilter(clean_text(o.text), chapters[ci].title,
                                   chapters[ci].subs[si])
            IN /\ log' = Append(log, "gen")
               /\ firstGood' = IF tries = 0 /\ firstGood = "none"
                               THEN Judged(seen, mem.claims) ELSE firstGood
               /\ err' = err
               /\ IF Accepts(cleaned)
                  THEN out_text' = cleaned /\ tries' = tries /\ pc' = "fix"
                  ELSE out_text' = out_text /\ tries' = tries + 1 /\ pc' = pc
  /\ UNCHANGED <<fvars, envvars, chapters, ci, si, doc, file, mem, fixed>>

\* ForceExpand entered one rejected attempt early
ForceExpandEarly ==
  /\ pc = "gen" /\ tries >= MAX_TRIES_PER_SUB - 1 /\ out_text = <<>>
  /\ called' = TRUE
  /\ \E o \in Outcomes(GenOuts) :
       IF o.raised
       THEN Abort("crashed", "APIError") /\ UNCHANGED <<out_text, log>>
       ELSE /\ out_text' = clean_text(o.text)
            /\ log' = Append(log, "force")
            /\ pc' = "fix" /\ err' = err
  /\ UNCHANGED <<fvars, envvars, chapters, ci, si, doc, file, mem, tries,
                 fixed, firstGood>>

\* lines 509-521: the forced expansion after the last rejected attempt
ForceExpand ==
  /\ pc = "gen" /\ tries >= MAX_TRIES_PER_SUB /\ out_text = <<>>
  /\ called' = TRUE
  /\ \E o \in Outcomes(GenOuts) :
       IF o.raised
       THEN Abort("crashed", "APIError") /\ UNCHANGED <<out_text, log>>
       ELSE /\ out_text' = clean_text(o.text)
            /\ log' = Append(log, "force")
            /\ pc' = "fix" /\ err' = err
  /\ UNCHANGED <<fvars, envvars, chapters, ci, si, doc, file, mem, tries,
                 fixed, firstGood>>

\* lines 466 and 523: quick_validate_and_fix
Fix ==
  /\ pc = "fix"
  /\ IF Issues(out_text, mem.claims) = {}
     THEN /\ fixed' = out_text
          /\ pc' = "write" /\ err' = err
          /\ UNCHANGED <<called, log>>
     ELSE /\ called' = TRUE
          /\ \E o \in Outcomes(FixOuts) :
               IF o.raised
               THEN Abort("crashed", "APIError") /\ UNCHANGED <<fixed, log>>
               ELSE /\ fixed' = FixedText(out_text, o.text)
                    /\ log' = Append(log, "fix")
                    /\ pc' = "write" /\ err' = err
  /\ UNCHANGED <<fvars, envvars, chapters, ci, si, doc, file, mem, tries,
                 out_text, firstGood>>

\* lines 467 and 524
Write ==
  /\ pc = "write"
  /\ doc' = doc \o write_subsection(fixed)
  /\ log' = Append(log, "append")
  /\ pc' = "refresh"
  /\ UNCHANGED <<fvars, envvars, err, chapters, ci, si, file, mem, tries,
                 out_text, fixed, called, firstGood>>

\* lines 468 and 526: update_memory_from_text
Refresh ==
  /\ pc = "refresh"
  /\ called' = TRUE
  /\ \E o \in Outcomes(MemOuts) :
       IF o.raised
       THEN Abort("crashed", "APIError") /\ UNCHANGED <<mem, log>>
       ELSE /\ mem' = UpdateMemory(o.text, mem)
            /\ log' = Append(log, "refresh")
            /\ pc' = "save" /\ err' = err
  /\ UNCHANGED <<fvars, envvars, chapters, ci, si, doc, file, tries, out_text,
                 fixed, firstGood>>

\* Save with the chapter-only path leaving the loop before save_doc
SaveSkippedForChapter ==
  /\ pc = "save"
  /\ file' = IF chapters[ci].subs = <<>> THEN file ELSE save_doc(doc)
  /\ log' = Append(log, "save")
  /\ IF si < Len(chapters[ci].subs)
     THEN si' = si + 1 /\ ci' = ci /\ pc' = "sub_head"
     ELSE si' = 1 /\ ci' = ci + 1 /\ pc' = "chapter"
  /\ UNCHANGED <<fvars, envvars, err, chapters, doc, mem, tries, out_text,
                 fixed, called, firstGood>>

\* lines 469-470 and 527: save, then the next subsection or chapter
Save ==
  /\ pc = "save"
  /\ file' = save_doc(doc)
  /\ log' = Append(log, "save")
  /\ IF si < Len(chapters[ci].subs)
     THEN si' = si + 1 /\ ci' = ci /\ pc' = "sub_head"
     ELSE si' = 1 /\ ci' = ci + 1 /\ pc' = "chapter"
  /\ UNCHANGED <<fvars, envvars, err, chapters, doc, mem, tries, out_text,
                 fixed, called, firstGood>>

Next ==
  \/ Guard \/ MainLoad \/ EnsureDoc \/ ChapterHead \/ Finish \/ ChapterGen
  \/ SubHead \/ BuildAngle \/ Generate \/ ForceExpand \/ Fix \/ Write
  \/ Refresh \/ Save

Spec == Init /\ [][Next]_vars

\* where the run has ended: main() returned, sys.exit, or an uncaught exception
Terminated == pc \in {"done", "exit", "crashed"}

PcValues ==
  {"start", "main", "ensure", "chapter", "ch_gen", "sub_head", "angle", "gen",
   "fix", "write", "refresh", "save", "done", "exit", "crashed", "idle"}

\* the interpreter executes the next statement of a run that has not ended.
\* Every action of Next changes pc or tries, and a run that has not ended has
\* a next statement, so this is the step of Next seen on <<pc, tries>>.
Advance ==
  /\ ~Terminated
  /\ pc' \in PcValues /\ tries' \in 0..MAX_TRIES_PER_SUB
  /\ <<pc', tries'>> # <<pc, tries>>

\* the process keeps running until it returns, exits or raises
SpecFair == Spec /\ WF_<<pc, tries>>(Advance)

(***************************************************************************)
(* clean_text applied to bounded inputs                                    *)
(***************************************************************************)
CleanAlphabet == {"sp", "nl", "L", "R", "E", "h", "-", "B", "w", "W"}

RECURSIVE SeqsUpTo(_, _)
SeqsUpTo(A, n) ==
  IF n = 0 THEN {<<>>}
  ELSE LET shorter == SeqsUpTo(A, n - 1)
       IN shorter \cup {Append(s, a) : s \in shorter, a \in A}

EnvIdle == hasKey = TRUE /\ checkpoint = FALSE /\ cfg = [exists |-> FALSE, keys |-> {}, toc |-> <<>>]

InitClean ==
  /\ fin \in SeqsUpTo(CleanAlphabet, MaxCleanLen)
  /\ fout = <<>>
  /\ EnvIdle /\ RunIdle

\* one more application of clean_text to the previous result
ApplyClean ==
  /\ Len(fout) < 2
  /\ fout' = Append(fout, clean_text(IF fout = <<>> THEN fin ELSE fout[Len(fout)]))
  /\ UNCHANGED <<fin, envvars, runvars>>

NextClean == ApplyClean

SpecClean == InitClean /\ [][NextClean]_vars

(***************************************************************************)
(* flatten_toc applied to bounded outlines                                 *)
(***************************************************************************)
TocItems ==
  { StrItem(TitleA), StrItem(TitleB), OtherItem,
    DictItem(<<>>),
    DictItem(<<Pair(TitleA, ListVal(<<SubX, SubY>>))>>),
    DictItem(<<Pair(TitleB, ListVal(<<>>))>>),
    DictItem(<<Pair(TitleA, NonListVal)>>),
    DictItem(<<Pair(TitleA, ListVal(<<SubX>>)), Pair(TitleB, NonListVal)>>) }

InitToc ==
  /\ fin \in SeqsUpTo(TocItems, MaxTocLen)
  /\ fout = <<>>
  /\ EnvIdle /\ RunIdle

ApplyFlatten ==
  /\ fout = <<>>
  /\ fout' = <<flatten_toc(fin)>>
  /\ UNCHANGED <<fin, envvars, runvars>>

NextToc == ApplyFlatten

SpecToc == InitToc /\ [][NextToc]_vars

(***************************************************************************)
(* update_memory_from_text applied to bounded responses                    *)
(***************************************************************************)
MemAlphabet == {"S", "C", "nl", "sp", "-", "w"}

PriorMems ==
  { InitMem,
    [summary |-> <<"Cap">>, claims |-> << <<"w", "sp", "w">>, <<"W">> >>,
     angle |-> <<"w">>] }

\* responses_text returns stripped text
MemInputs ==
  {[out |-> o, mem |-> m] :
     o \in {x \in SeqsUpTo(MemAlphabet, MaxMemLen) : Strip(x) = x},
     m \in PriorMems}

InitMemSpec ==
  /\ fin \in MemInputs
  /\ fout = <<>>
  /\ EnvIdle /\ RunIdle

ApplyUpdateMemory ==
  /\ fout = <<>>
  /\ fout' = <<UpdateMemory(fin.out, fin.mem)>>
  /\ UNCHANGED <<fin, envvars, runvars>>

NextMem == ApplyUpdateMemory

SpecMem == InitMemSpec /\ [][NextMem]_vars

(***************************************************************************)
(* responses_text applied to bounded response objects                      *)
(*   a response has the attributes output (a list of blocks, <<>> when     *)
(*   missing or empty), output_text and choices (None modelled by          *)
(*   some = FALSE)                                                         *)
(***************************************************************************)
Some(t) == [some |-> TRUE, text |-> t]
None == [some |-> FALSE, text |-> <<>>]

\* an element of block.content
Part(type, t) == [type |-> type, text |-> t]

\* an element of resp.output
Block(type, content, t) == [type |-> type, content |-> content, text |-> t]

\* the c.text of the output_text parts of a message block, in order
RECURSIVE PartTexts(_)
PartTexts(content) ==
  IF content = <<>> THEN <<>>
  ELSE (IF Head(content).type = "output_text" THEN Head(content).text ELSE <<>>)
         \o PartTexts(Tail(content))

\* lines 146-152: "".join(out)
RECURSIVE BlockTexts(_)
BlockTexts(output) ==
  IF output = <<>> THEN <<>>
  ELSE LET b == Head(output)
       IN (CASE b.type = "message" -> PartTexts(b.content)
             [] b.type = "output_text" -> b.text
             [] OTHER -> <<>>)
            \o BlockTexts(Tail(output))

\* lines 143-160; content None has no strip(): AttributeError
responses_text(resp) ==
  LET txt == Strip(BlockTexts(resp.output))
  IN IF resp.output # <<>> /\ txt # <<>>
     THEN [raised |-> FALSE, text |-> txt]
     ELSE IF resp.output_text.some /\ resp.output_text.text # <<>>
          THEN [raised |-> FALSE, text |-> Strip(resp.output_text.text)]
     ELSE IF resp.choices # <<>>
          THEN (IF resp.choices[1].some
                THEN [raised |-> FALSE, text |-> Strip(resp.choices[1].text)]
                ELSE [raised |-> TRUE, text |-> <<>>])
     ELSE [raised |-> FALSE, text |-> <<>>]

RespTexts == {<<>>, <<"sp">>, <<"w">>, <<"Cap", "sp">>}

RespBlocks ==
  {Block("output_text", <<>>, t) : t \in RespTexts}
    \cup {Block("message", <<Part("output_text", t)>>, <<>>) : t \in RespTexts}
    \cup { Block("message", <<>>, <<>>),
           Block("message", <<Part("refusal", <<"W">>), Part("output_text", <<"w">>)>>, <<>>),
           Block("reasoning", <<>>, <<>>) }

Responses ==
  {[output |-> o, output_text |-> ot, choices |-> ch] :
     o \in SeqsUpTo(RespBlocks, MaxRespBlocks),
     ot \in {None} \cup {Some(t) : t \in RespTexts},
     ch \in {<<>>} \cup {<<Some(t)>> : t \in RespTexts}}

InitResp ==
  /\ fin \in Responses
  /\ fout = <<>>
  /\ EnvIdle /\ RunIdle

ApplyResponsesText ==
  /\ fout = <<>>
  /\ fout' = <<responses_text(fin)>>
  /\ UNCHANGED <<fin, envvars, runvars>>

NextResp == ApplyResponsesText

SpecResp == InitResp /\ [][NextResp]_vars

(***************************************************************************)
(* Properties                                                              *)
(***************************************************************************)
Count(seq, x) == Cardinality({i \in 1..Len(seq) : seq[i] = x})

\* the text of a block: its runs concatenated
RECURSIVE ConcatRuns(_)
ConcatRuns(runs) ==
  IF runs = <<>> THEN <<>> ELSE Head(runs).text \o ConcatRuns(Tail(runs))

BlockText(b) == ConcatRuns(b.runs)

\* the level-1 and level-2 headings of a document, in order
RECURSIVE HeadingsOf(_)
HeadingsOf(d) ==
  IF d = <<>> THEN <<>>
  ELSE IF Head(d).kind \in {"h1", "h2"}
       THEN <<<<Head(d).kind, BlockText(Head(d))>>>> \o HeadingsOf(Tail(d))
  ELSE HeadingsOf(Tail(d))

ValidItem(item) ==
  item.kind = "str" \/ (item.kind = "dict" /\ Len(item.pairs) = 1)

ValidOutline(toc) == \A i \in 1..Len(toc) : ValidItem(toc[i])

\* the headings a valid outline item asks for
ItemHeadings(item) ==
  IF item.kind = "str" THEN <<<<"h1", item.title>>>>
  ELSE LET v == item.pairs[1].v
           subs == IF v.isList THEN v.subs ELSE <<>>
       IN <<<<"h1", item.pairs[1].k>>>> \o [j \in 1..Len(subs) |-> <<"h2", subs[j]>>]

RECURSIVE OutlineHeadings(_)
OutlineHeadings(toc) ==
  IF toc = <<>> THEN <<>>
  ELSE ItemHeadings(Head(toc)) \o OutlineHeadings(Tail(toc))

\* C1: when main() has run to completion on a valid outline, the level-1 and
\* level-2 headings of the document (and of the saved file) are exactly the
\* chapter titles, each followed by its subsection titles, in outline order.
C1_HeadingsMirrorOutline ==
  (pc = "done" /\ ValidOutline(cfg.toc)) =>
     /\ HeadingsOf(doc) = OutlineHeadings(cfg.toc)
     /\ HeadingsOf(file) = OutlineHeadings(cfg.toc)

C1_Witness ==
  /\ pc = "done"
  /\ Len(cfg.toc) = 2 /\ cfg.toc[1].kind = "dict"
  /\ Len(HeadingsOf(doc)) = 4

\* C2: a subsection whose MAX_TRIES_PER_SUB attempts were all rejected and
\* that went through the forced expansion (no remediation call made) has body
\* text under its heading once write_subsection has run, whatever the forced
\* expansion returned.
C2_ForcedUnitHasBody ==
  (pc \in {"refresh", "save"} /\ Count(log, "force") = 1 /\ Count(log, "fix") = 0)
     => doc[Len(doc)].kind = "p"

\* C3: no body paragraph of the document contains the sentinel END_MARK.
C3_NoSentinelWritten ==
  \A i \in 1..Len(doc) :
     doc[i].kind = "p" => ~Contains(BlockText(doc[i]), END_MARK)

\* C4: once the output document exists, no empty completion and no failure
\* of the completion client ends the run with an error.
C4_NoAbortAfterDocCreated == doc # <<>> => pc # "crashed"

\* C5: a unit whose first generation attempt had at least
\* MIN_SUBSECTION_WORDS words and no issue for quick_validate_and_fix goes on
\* with exactly one generation call: no retry, no forced expansion, no
\* remediation call.
C5_CleanFirstAttemptOneCall ==
  firstGood = "good" =>
     /\ pc # "gen"
     /\ Count(log, "gen") = 1
     /\ Count(log, "force") = 0
     /\ Count(log, "fix") = 0

C5_Witness ==
  firstGood = "good" /\ pc = "save" /\ Count(log, "append") = 1

\* the text after the first SUMMARY: label, stripped
SummaryBlock(out) ==
  Strip(SubSeq(out, FirstIndex(out, "S") + 1, Len(out)))

\* C6: a response with a SUMMARY: block and no CLAIMS: block keeps the claims
\* and replaces the summary by the block's text; a response without SUMMARY:
\* keeps the summary.
C6_FieldsIndependent ==
  fout # <<>> =>
     LET out == fin.out
         r == fout[1]
     IN /\ (FirstIndex(out, "C") = 0 /\ FirstIndex(out, "S") # 0
              /\ SummaryBlock(out) # <<>>)
             => (r.claims = fin.mem.claims /\ r.summary = SummaryBlock(out))
        /\ FirstIndex(out, "S") = 0 => r.summary = fin.mem.summary

IsPrefix(a, b) == Len(a) <= Len(b) /\ SubSeq(b, 1, Len(a)) = a

\* what is in the document and not in the file
Unsaved == SubSeq(doc, Len(file) + 1, Len(doc))

\* the headings of one chapter and of the first n of its subsections
ChapterHeadings(ch, n) ==
  <<<<"h1", ch.title>>>> \o [j \in 1..n |-> <<"h2", ch.subs[j]>>]

RECURSIVE HeadingsBefore(_)
HeadingsBefore(c) ==
  IF c = 0 THEN <<>>
  ELSE HeadingsBefore(c - 1) \o ChapterHeadings(chapters[c], Len(chapters[c].subs))

\* the headings of the units whose processing has finished
FinishedHeadings ==
  HeadingsBefore(ci - 1)
    \o (IF ci <= Len(chapters) /\ si > 1
        THEN ChapterHeadings(chapters[ci], si - 1) ELSE <<>>)

\* at most one chapter heading, then at most one subsection heading, then body
OneUnitShape(u) ==
  /\ Count([i \in 1..Len(u) |-> u[i].kind], "h1") <= 1
  /\ Count([i \in 1..Len(u) |-> u[i].kind], "h2") <= 1
  /\ \A i \in 1..Len(u) : u[i].kind # "h0"
  /\ \A i, j \in 1..Len(u) :
       i < j => /\ ~(u[i].kind = "p" /\ u[j].kind # "p")
                /\ ~(u[i].kind = "h2" /\ u[j].kind = "h1")

\* C7: at every point of a run the file is a prefix of the document that
\* holds the title and exactly the headings (with their bodies) of the
\* finished units, and what the document holds beyond the file is the
\* content of at most one unit; between units nothing is unsaved.
C7_CrashLosesAtMostOneUnit ==
  /\ file = <<>> => doc = <<>>
  /\ file # <<>> =>
       /\ IsPrefix(file, doc)
       /\ file[1] = Heading(0, BookTitle)
       /\ HeadingsOf(file) = FinishedHeadings
       /\ OneUnitShape(Unsaved)
       /\ pc \in {"chapter", "done"} => Unsaved = <<>>

C7_Witness ==
  /\ pc = "crashed" /\ Len(file) > 3
  /\ \E i \in 1..Len(Unsaved) : Unsaved[i].kind = "p"

\* every item is a string or a single-key mapping; the chapter of item i
ItemChapter(item) ==
  IF item.kind = "str" THEN [title |-> item.title, subs |-> <<>>]
  ELSE [title |-> item.pairs[1].k,
        subs |-> IF item.pairs[1].v.isList THEN item.pairs[1].v.subs ELSE <<>>]

\* C8: flatten_toc yields one chapter per item, in order, when every item is
\* a string or a single-key mapping, and fails for every other outline.
C8_OneChapterPerItem ==
  fout # <<>> =>
     IF ValidOutline(fin)
     THEN /\ fout[1].ok
          /\ fout[1].chapters = [i \in 1..Len(fin) |-> ItemChapter(fin[i])]
     ELSE ~fout[1].ok

FatalErrors == {"MissingCredential", "MissingConfig", "KeyError", "ValueError"}

FatalInput ==
  \/ ~hasKey
  \/ ~cfg.exists
  \/ cfg.keys # AllKeys
  \/ \E i \in 1..Len(cfg.toc) : cfg.toc[i].kind = "other"

\* C9: a run that has a missing credential, a missing or incomplete
\* book.yaml or an outline item that is neither string nor mapping never
\* creates or saves a document and never calls the completion service; a
\* run ended by one of these errors has done none of this.
C9_FatalBeforeOutput ==
  /\ err \in FatalErrors => (doc = <<>> /\ file = <<>> /\ ~called)
  /\ FatalInput => (doc = <<>> /\ file = <<>> /\ ~called /\ pc # "done")

C9_Witness ==
  /\ pc = "crashed" /\ err = "ValueError"
  /\ Len(cfg.toc) = 2 /\ cfg.toc[1].kind = "str"

\* C10: clean_text(clean_text(x)) = clean_text(x).
C10_CleanTextIdempotent == Len(fout) = 2 => fout[2] = fout[1]

\* C11: when quick_validate_and_fix has flagged an issue and its remediation
\* call returned, the result is the cleaned reply if that is non-empty and the
\* flagged text unchanged otherwise; so it is never empty for a non-empty text.
C11_FixFallsBackToOriginal ==
  [][(pc = "fix" /\ pc' = "write" /\ Issues(out_text, mem.claims) # {})
       => /\ \/ fixed' = out_text
             \/ \E r \in FixOuts : clean_text(r) # <<>> /\ fixed' = clean_text(r)
          /\ out_text # <<>> => fixed' # <<>>]_vars

\* the text a shape yields: stripped, <<>> when the shape is absent
ShapeText(opt) == IF opt.some THEN Strip(opt.text) ELSE <<>>

\* the first non-empty text in the order output_text, output, choices
FirstShapeText(resp) ==
  LET direct == ShapeText(resp.output_text)
      blocks == Strip(BlockTexts(resp.output))
      legacy == IF resp.choices = <<>> THEN <<>> ELSE ShapeText(resp.choices[1])
  IN IF direct # <<>> THEN direct
     ELSE IF blocks # <<>> THEN blocks
     ELSE legacy

\* C12: responses_text returns the first non-empty text among output_text,
\* then the content blocks of output, then choices, a shape with empty or
\* whitespace-only text falling through to the next, and "" when none has text.
C12_FirstNonEmptyShape ==
  fout # <<>> => fout[1] = [raised |-> FALSE, text |-> FirstShapeText(fin)]

\* C13: the unit's body is saved before the summarisation call for the unit
\* is made: once the refresh has been done, the save has been done and the
\* file holds the document.
C13_SaveBeforeRefresh ==
  (pc \in {"refresh", "save"} /\ Count(log, "refresh") = 1)
     => (Count(log, "save") = 1 /\ file = doc)

\* a subsection unit between its planning step and its save
InSubUnit ==
  pc \in {"gen", "fix", "write", "refresh", "save"} /\ chapters[ci].subs # <<>>

\* C14: a subsection unit gets at most MAX_TRIES_PER_SUB generation calls and
\* one forced-expansion call exactly when all MAX_TRIES_PER_SUB attempts were
\* rejected; after the forced expansion it is not generated again but goes
\* on to be written (unless a call raises); and every run terminates.
C14_BoundedAttemptsThenAccepted ==
  /\ [](InSubUnit =>
          /\ Count(log, "gen") <= MAX_TRIES_PER_SUB
          /\ Count(log, "force") <= 1
          /\ pc = "gen" => (Count(log, "force") = 0 /\ Count(log, "gen") = tries)
          /\ pc # "gen" => (Count(log, "force") = 1 <=> tries = MAX_TRIES_PER_SUB)
          /\ Count(log, "force") = 1 => Count(log, "gen") = MAX_TRIES_PER_SUB)
  /\ (Count(log, "force") = 1 /\ pc = "fix") ~> (pc \in {"write", "crashed"})
  /\ <>Terminated

C14_Witness ==
  /\ pc = "save" /\ InSubUnit
  /\ Count(log, "force") = 1 /\ Count(log, "gen") = MAX_TRIES_PER_SUB

\* C15: the claims list of the memory never holds more than 7 entries, and a
\* refresh either keeps it (the response had no claim lines) or sets it to
\* the first 7 claim lines of the response.
C15_ClaimsCappedOrKept ==
  /\ [](Len(mem.claims) <= 7)
  /\ [][(pc = "refresh" /\ pc' = "save")
          => \/ mem'.claims = mem.claims
             \/ \E o \in MemOuts :
                  /\ ParsedClaims(o) # <<>>
                  /\ mem'.claims = Take(ParsedClaims(o), 7)]_vars
  /\ [][(pc # "refresh" /\ pc # "ensure") => mem'.claims = mem.claims]_vars

C15_Witness ==
  /\ pc = "refresh" /\ Len(mem.claims) = 7
  /\ mem.claims[7] = <<"w">>

\* the prompt of the next generation call of the current subsection
CurrentPrompt == subheading_prompt(chapters[ci].title, chapters[ci].subs[si], mem)

\* C16: while a subsection is being generated the document ends with the
\* subsection's heading, and a rejected attempt changes neither the document
\* nor the file nor the memory record nor the prompt of the next attempt, and
\* keeps nothing of the rejected text.
C16_RejectedAttemptLeavesNoTrace ==
  /\ [](pc = "gen" =>
          /\ doc[Len(doc)] = Heading(2, chapters[ci].subs[si])
          /\ out_text = <<>>)
  /\ [][(pc = "gen" /\ pc' = "gen")
          => /\ doc' = doc /\ file' = file /\ mem' = mem
             /\ CurrentPrompt' = CurrentPrompt]_vars

C16_Witness ==
  /\ pc = "gen" /\ tries >= 2
  /\ mem.summary # <<>> /\ mem.claims # <<>> /\ mem.angle # <<>>

====
